---- MODULE Spec2Model ----
(***************************************************************************)
(* Model of service/configsync/configsync.go: the registration and         *)
(* heartbeat client of the agent.  A caller invokes Start(), which runs    *)
(* registerWithBackoff() synchronously and, on success, launches           *)
(* startHeartbeat() as a goroutine.  Durations are in whole seconds.       *)
(***************************************************************************)
EXTENDS Bags, FiniteSets, Integers, Sequences, TLC

\* ---- program constants (configsync.go:17-22) ----
MAX_REGISTRATION_ATTEMPTS == 5
FAILED_HEARTBEAT_RETRY_INTERVAL == 5
REGISTRATION_PATH == "register"
HEARTBEAT_PATH == "heartbeat"
StatusOK == 200

\* ---- bounds of the model ----
\* number of distinct version identifiers the rules store can report
NumVersions == 2
\* the ghost counters of heartbeat cycles and requests saturate here
MaxHeartbeats == 3
\* longest list of interface addresses drawn
MaxAddrs == 3

\* ---- the environment ----
\* invocations of Start(); the specification Spec runs the first one only
Callers == {1, 2}
FirstCaller == {1}
VersionIDs == 0..(NumVersions - 1)
\* heartbeat intervals the client may be constructed with (seconds)
HeartbeatIntervals == {1, 60}
\* status codes the controller answers with
Statuses == {200, 201, 503}
\* response bodies: undecodable, decodable without rules, decodable with rules
Bodies == {"invalid", "norules", "rules"}
\* results of httpClient.Do: a transport error, or a response
TransportError == [err |-> TRUE, status |-> 0, body |-> "none"]
DoResults == {TransportError} \cup [err : {FALSE}, status : Statuses, body : Bodies]
\* failures of json.Marshal / http.NewRequest before anything is sent
BuildResults == {"ok", "marshal", "newrequest"}
\* "no attempt made yet"
NoAttempt == [err |-> FALSE, status |-> 0, body |-> "none"]

Min(a, b) == IF a < b THEN a ELSE b

VARIABLES
  ifaddrs,       \* what net.InterfaceAddrs() returns on this host
  client,        \* the Client struct: identity, url, heartbeatInterval
  newClientErr,  \* what NewClient returned: "pending" before the call, "nil", or an error
  rulesVersion,  \* what verificationRulesManager.GetRulesVersionId() returns
  rulesCalls,    \* rule sets this client handed to the rules store, in order
  inflight,      \* bag of requests handed to httpClient.Do, not yet answered
  pc,            \* per Start() invocation: position of the calling thread
  attempt,       \* registerWithBackoff's local counter
  backoff,       \* registerWithBackoff's local backoff (while sleeping)
  startErr,      \* what Start() returned: "pending", "nil" or "exhausted"
  hbpc,          \* position of the startHeartbeat goroutine
  heartBeatReq,  \* startHeartbeat's local heartBeatReq
  hbSleep,       \* duration passed to time.Sleep while the goroutine sleeps
  \* history variables
  regCalls,      \* calls of register() made
  regSent,       \* POSTs to /register handed to the transport
  lastErr,       \* what the most recent register() returned
  lastResp,      \* the result of the most recent httpClient.Do in register()
  nBackoffs,     \* backoff sleeps begun by registerWithBackoff
  slept,         \* seconds of backoff slept by the registerWithBackoff in progress
  hbCycles,      \* heartbeat cycles begun (saturating)
  hbSent,        \* POSTs to /heartbeat handed to the transport (saturating)
  lastOutcome,   \* how the most recent finished heartbeat cycle ended
  hbStatus,      \* status of the response the most recent cycle got (0: none)
  waits,         \* durations slept since the last heartbeat cycle ended
  sep,           \* the sleeps that preceded the current heartbeat cycle
  builtAt,       \* rules store version when the current cycle was built
  prevBuilt,     \* rules store version when the previous cycle was built
  launches,      \* go c.startHeartbeat() statements executed
  consecFails    \* consecutive failed heartbeat cycles so far (saturating)

startVars == <<pc, attempt, backoff, startErr>>
regHist == <<regCalls, regSent, lastErr, lastResp, nBackoffs, slept>>
hbVars == <<hbpc, heartBeatReq, hbSleep>>
hbHist == <<hbCycles, hbSent, lastOutcome, hbStatus, waits, sep, builtAt, prevBuilt, launches, consecFails>>
construction == <<ifaddrs, client, newClientErr>>
vars == <<construction, rulesVersion, rulesCalls, inflight, startVars, regHist, hbVars, hbHist>>

\* ---- requests (configsync.go:55-68) ----
registrationRequest(c) ==
  [IPAddress |-> c.webhookIP, Port |-> c.webhookPort,
   ServiceName |-> c.serviceName, Namespace |-> c.namespace]

heartBeatRequest_MixesFields(c, ver) ==
  [IPAddress |-> c.webhookIP, Port |-> c.webhookPort,
   ServiceName |-> c.serviceName, Namespace |-> c.serviceName,
   RulesVersionID |-> ver]

heartBeatRequest(c, ver) ==
  [IPAddress |-> c.webhookIP, Port |-> c.webhookPort,
   ServiceName |-> c.serviceName, Namespace |-> c.namespace,
   RulesVersionID |-> ver]

NoRequest == [IPAddress |-> "", Port |-> 0, ServiceName |-> "", Namespace |-> "",
              RulesVersionID |-> 0]

\* a request on the wire: who sent it, where to, what it carries
Wire(i, path, body) == [caller |-> i, path |-> path, body |-> body]

InFlight(i, path) ==
  {r \in BagToSet(inflight) : r.caller = i /\ r.path = path}

NumInFlight(i, path) ==
  LET S == InFlight(i, path)
      RECURSIVE Sum(_)
      Sum(T) == IF T = {} THEN 0
                ELSE LET r == CHOOSE x \in T : TRUE
                     IN CopiesIn(r, inflight) + Sum(T \ {r})
  IN Sum(S)

\* ---- getLocalIP (configsync.go:201-216) ----
\* An interface address: its textual form, whether it is a *net.IPNet, whether
\* IsLoopback() holds, whether To4() is non-nil.
Addr(ip, isIPNet, loopback, v4) ==
  [ip |-> ip, isIPNet |-> isIPNet, loopback |-> loopback, v4 |-> v4]

\* line 208-209: the address the loop returns on
Usable_ForgetsLoopback(a) == a.isIPNet /\ a.v4

Usable(a) == a.isIPNet /\ ~a.loopback /\ a.v4

NoUsableAddress == "couldn't obtain a webhook IP address"

\* ifs: the result of net.InterfaceAddrs(), [err, addrs]
getLocalIP(ifs) ==
  LET RECURSIVE Scan(_)
      Scan(k) == IF k > Len(ifs.addrs) THEN [ip |-> "", err |-> NoUsableAddress]
                 ELSE IF Usable(ifs.addrs[k]) THEN [ip |-> ifs.addrs[k].ip, err |-> "nil"]
                 ELSE Scan(k + 1)
  IN IF ifs.err THEN [ip |-> "", err |-> "interface addresses unavailable"]
     ELSE Scan(1)

\* ---- NewClient (configsync.go:36-53) ----
\* the nil *Client
NoClient ==
  [webhookIP |-> "", webhookPort |-> 0, tconfigdUrl |-> "", serviceName |-> "",
   namespace |-> "", heartbeatInterval |-> 0]

NewClient(ifs, interval) ==
  LET r == getLocalIP(ifs)
  IN IF r.err # "nil"
       THEN [c |-> NoClient, err |-> r.err]
       ELSE [c |-> [webhookIP |-> r.ip, webhookPort |-> 9443,
                    tconfigdUrl |-> "https://tconfigd/", serviceName |-> "svc",
                    namespace |-> "ns", heartbeatInterval |-> interval],
             err |-> "nil"]

\* the addresses of an ordinary host: loopback first, then the pod's addresses
HostInterfaces ==
  [err |-> FALSE,
   addrs |-> <<Addr("127.0.0.1", TRUE, TRUE, TRUE), Addr("::1", TRUE, TRUE, FALSE),
               Addr("10.0.0.7", TRUE, FALSE, TRUE), Addr("fe80::1", TRUE, FALSE, FALSE)>>]

\* the addresses a host may have; net.InterfaceAddrs() yields *net.IPNet values
AddrKinds ==
  {Addr("127.0.0.1", TRUE, TRUE, TRUE), Addr("::1", TRUE, TRUE, FALSE),
   Addr("10.0.0.7", TRUE, FALSE, TRUE), Addr("192.168.1.5", TRUE, FALSE, TRUE),
   Addr("fe80::1", TRUE, FALSE, FALSE)}

AddrLists == UNION {[1..n -> AddrKinds] : n \in 0..MaxAddrs}

\* results of net.InterfaceAddrs(): an error, or a list of addresses
InterfaceInputs ==
  {[err |-> TRUE, addrs |-> << >>]} \cup {[err |-> FALSE, addrs |-> l] : l \in AddrLists}

\* everything but the construction of the client
InitRest ==
  /\ rulesVersion \in VersionIDs
  /\ rulesCalls = << >>
  /\ inflight = EmptyBag
  /\ pc = [i \in Callers |-> "idle"]
  /\ attempt = [i \in Callers |-> 0]
  /\ backoff = [i \in Callers |-> 0]
  /\ startErr = [i \in Callers |-> "pending"]
  /\ hbpc = [i \in Callers |-> "none"]
  /\ heartBeatReq = [i \in Callers |-> NoRequest]
  /\ hbSleep = [i \in Callers |-> 0]
  /\ regCalls = [i \in Callers |-> 0]
  /\ nBackoffs = [i \in Callers |-> 0]
  /\ slept = [i \in Callers |-> 0]
  /\ regSent = [i \in Callers |-> 0]
  /\ lastErr = [i \in Callers |-> "none"]
  /\ lastResp = [i \in Callers |-> NoAttempt]
  /\ hbCycles = [i \in Callers |-> 0]
  /\ hbSent = [i \in Callers |-> 0]
  /\ lastOutcome = [i \in Callers |-> "none"]
  /\ hbStatus = [i \in Callers |-> 0]
  /\ waits = [i \in Callers |-> << >>]
  /\ sep = [i \in Callers |-> << >>]
  /\ builtAt = [i \in Callers |-> 0]
  /\ prevBuilt = [i \in Callers |-> 0]
  /\ launches = [i \in Callers |-> 0]
  /\ consecFails = [i \in Callers |-> 0]

\* the state after NewClient has returned a client on an ordinary host
Init ==
  /\ ifaddrs = HostInterfaces
  /\ \E h \in HeartbeatIntervals :
       /\ client = NewClient(ifaddrs, h).c
       /\ newClientErr = NewClient(ifaddrs, h).err
  /\ InitRest

\* the state before NewClient is called, on any host
InitIP ==
  /\ ifaddrs \in InterfaceInputs
  /\ client = NoClient
  /\ newClientErr = "pending"
  /\ InitRest

\* the process calls NewClient (configsync.go:36-53)
NewClientCall ==
  /\ newClientErr = "pending"
  /\ \E h \in HeartbeatIntervals :
       /\ client' = NewClient(ifaddrs, h).c
       /\ newClientErr' = NewClient(ifaddrs, h).err
  /\ UNCHANGED <<ifaddrs, rulesVersion, rulesCalls, inflight, startVars, regHist,
                 hbVars, hbHist>>

\* ---- Start (configsync.go:70-82) ----
\* Start() tests nothing before it calls registerWithBackoff(): no flag, no
\* sync.Once, no lock tells an invocation that another one was made.
StartGuard_Once(i) == \A j \in Callers \ {i} : pc[j] = "idle"

StartGuard(i) == TRUE

\* The caller enters Start(), which enters registerWithBackoff(): attempt = 0.
Start(i) ==
  /\ newClientErr = "nil"
  /\ pc[i] = "idle"
  /\ StartGuard(i)
  /\ pc' = [pc EXCEPT ![i] = "register"]
  /\ attempt' = [attempt EXCEPT ![i] = 0]
  /\ UNCHANGED <<construction, rulesVersion, rulesCalls, inflight, backoff, startErr,
                 regHist, hbVars, hbHist>>

\* Start() launches the heartbeat goroutine exactly when registerWithBackoff
\* returned nil.  state: "retry" (registerWithBackoff still looping), "nil"
\* or "exhausted" (what it returned).
StartLaunches_IgnoresError(state) == state # "retry"

StartLaunches_EveryAttempt(state) == TRUE

StartLaunches(state) == state = "nil"

\* ---- registerWithBackoff (configsync.go:84-110) ----
\* line 93: the attempt budget is used up
Exhausted_OffByOne(a) == a > MAX_REGISTRATION_ATTEMPTS

Exhausted(a) == a >= MAX_REGISTRATION_ATTEMPTS

\* line 97: rand.Intn(1 << attempt) seconds
BackoffChoices_Inclusive(a) == 0..(2 ^ a)

BackoffChoices(a) == 0..((2 ^ a) - 1)

\* line 91: attempt++ on the counter declared before the loop (line 85)
NextAttempt_DeclaredInLoop(n) == 1

NextAttempt(n) == n + 1

\* what registerWithBackoff does once register() has returned err
RegisterReturned(i, err) ==
  LET a == IF err = "nil" THEN attempt[i] ELSE NextAttempt(attempt[i])
      state == IF err = "nil" THEN "nil"
               ELSE IF Exhausted(a) THEN "exhausted" ELSE "retry"
  IN /\ lastErr' = [lastErr EXCEPT ![i] = err]
     /\ attempt' = [attempt EXCEPT ![i] = a]
     /\ hbpc' = [hbpc EXCEPT ![i] = IF StartLaunches(state) THEN "build" ELSE @]
     /\ launches' = [launches EXCEPT ![i] = IF StartLaunches(state) THEN @ + 1 ELSE @]
     /\ IF state = "retry"
          THEN /\ \E d \in BackoffChoices(a) :
                    /\ backoff' = [backoff EXCEPT ![i] = d]
                    /\ slept' = [slept EXCEPT ![i] = @ + d]
               /\ nBackoffs' = [nBackoffs EXCEPT ![i] = @ + 1]
               /\ pc' = [pc EXCEPT ![i] = "sleep"]
               /\ UNCHANGED startErr
          ELSE /\ pc' = [pc EXCEPT ![i] = "done"]
               /\ startErr' = [startErr EXCEPT ![i] = state]
               /\ slept' = [slept EXCEPT ![i] = 0]
               /\ UNCHANGED <<backoff, nBackoffs>>

\* ---- register (configsync.go:112-146) ----
\* lines 134-145: what register() returns for a result of httpClient.Do
RegisterResult_DecodesBody(r) ==
  IF r.err THEN "send"
  ELSE IF r.status # StatusOK THEN "status"
  ELSE IF r.body = "invalid" THEN "decode"
  ELSE "nil"

RegisterResult_Any2xx(r) ==
  IF r.err THEN "send"
  ELSE IF r.status < 200 \/ r.status >= 300 THEN "status"
  ELSE "nil"

RegisterResult(r) ==
  IF r.err THEN "send"
  ELSE IF r.status # StatusOK THEN "status"
  ELSE "nil"

\* lines 139-145: the rule sets register() hands to the rules store for a
\* response: the body is closed unread, so none
RulesHandedToStore_OnSuccess(r) ==
  IF ~r.err /\ r.status = StatusOK /\ r.body = "rules" THEN <<r.body>> ELSE << >>

RulesHandedToStore_BeforeStatusCheck(r) ==
  IF ~r.err /\ r.body = "rules" THEN <<r.body>> ELSE << >>

RulesHandedToStore(r) == << >>

\* lines 127-134: the requests one register() call hands to the transport once
\* the request is built: one POST to <tconfigdUrl>/register
RegisterPosts_Twice(i) ==
  [w \in {Wire(i, REGISTRATION_PATH, registrationRequest(client))} |-> 2]

RegisterPosts(i) ==
  SetToBag({Wire(i, REGISTRATION_PATH, registrationRequest(client))})

\* lines 112-134: register() builds the request and hands it to the transport,
\* or fails before anything is sent
RegisterCall(i) ==
  /\ pc[i] = "register"
  /\ regCalls' = [regCalls EXCEPT ![i] = @ + 1]
  /\ \E b \in BuildResults :
       IF b = "ok"
         THEN /\ inflight' = inflight (+) RegisterPosts(i)
              /\ regSent' = [regSent EXCEPT ![i] = @ + BagCardinality(RegisterPosts(i))]
              /\ pc' = [pc EXCEPT ![i] = "do"]
              /\ UNCHANGED <<attempt, backoff, startErr, lastErr, lastResp, hbpc, launches,
                             nBackoffs, slept>>
         ELSE /\ RegisterReturned(i, b)
              /\ lastResp' = [lastResp EXCEPT ![i] = NoAttempt]
              /\ UNCHANGED <<inflight, regSent>>
  /\ UNCHANGED <<construction, rulesVersion, rulesCalls, heartBeatReq, hbSleep,
                 hbCycles, hbSent, lastOutcome, hbStatus, waits, sep, builtAt, prevBuilt,
                 consecFails>>

\* lines 134-145: httpClient.Do returns; register() returns
RegisterDone(i) ==
  /\ pc[i] = "do"
  /\ \E w \in InFlight(i, REGISTRATION_PATH) : \E r \in DoResults :
       /\ inflight' = inflight (-) SetToBag({w})
       /\ lastResp' = [lastResp EXCEPT ![i] = r]
       /\ rulesCalls' = rulesCalls \o RulesHandedToStore(r)
       /\ RegisterReturned(i, RegisterResult(r))
  /\ UNCHANGED <<construction, rulesVersion, regCalls, regSent, heartBeatReq, hbSleep,
                 hbCycles, hbSent, lastOutcome, hbStatus, waits, sep, builtAt, prevBuilt,
                 consecFails>>

\* line 101: time.Sleep(backoff) is over; the loop continues
BackoffDone(i) ==
  /\ pc[i] = "sleep"
  /\ pc' = [pc EXCEPT ![i] = "register"]
  /\ backoff' = [backoff EXCEPT ![i] = 0]
  /\ UNCHANGED <<construction, rulesVersion, rulesCalls, inflight, attempt, startErr,
                 regHist, hbVars, hbHist>>

\* ---- startHeartbeat (configsync.go:148-199) ----
\* line 157: the version identifier a cycle puts in its request
CycleVersion_ReadOnce(i) ==
  IF hbCycles[i] = 0 THEN rulesVersion ELSE heartBeatReq[i].RulesVersionID

CycleVersion(i) == rulesVersion

\* lines 178-194: how a cycle ends for a result of httpClient.Do
HeartbeatOutcome(r) ==
  IF r.err THEN "send"
  ELSE IF r.status # StatusOK THEN "status"
  ELSE "ok"

\* lines 163, 171, 181, 189, 197: the duration the cycle sleeps
HeartbeatSleep_AlwaysInterval(outcome, c) == c.heartbeatInterval

HeartbeatSleep(outcome, c) ==
  IF outcome = "ok" THEN c.heartbeatInterval ELSE FAILED_HEARTBEAT_RETRY_INTERVAL

\* lines 165, 173, 183, 191, 197-198: where the goroutine goes when a cycle ends
HeartbeatNext_GivesUp(outcome) == IF outcome = "send" THEN "stopped" ELSE "sleep"

HeartbeatNext(outcome) == "sleep"

\* lines 152-158: a cycle begins by building heartBeatReq
HbBuild(i) ==
  /\ hbpc[i] = "build"
  /\ heartBeatReq' = [heartBeatReq EXCEPT ![i] = heartBeatRequest(client, CycleVersion(i))]
  /\ builtAt' = [builtAt EXCEPT ![i] = rulesVersion]
  /\ prevBuilt' = [prevBuilt EXCEPT ![i] = builtAt[i]]
  /\ hbCycles' = [hbCycles EXCEPT ![i] = Min(@ + 1, MaxHeartbeats)]
  /\ sep' = [sep EXCEPT ![i] = waits[i]]
  /\ waits' = [waits EXCEPT ![i] = << >>]
  /\ hbpc' = [hbpc EXCEPT ![i] = "send"]
  /\ UNCHANGED <<construction, rulesVersion, rulesCalls, inflight, startVars, regHist,
                 hbSleep, hbSent, lastOutcome, hbStatus, launches, consecFails>>

\* a cycle ends with outcome: the goroutine starts its sleep
HbCycleEnds(i, outcome) ==
  /\ lastOutcome' = [lastOutcome EXCEPT ![i] = outcome]
  /\ consecFails' = [consecFails EXCEPT ![i] =
                       IF outcome = "ok" THEN 0 ELSE Min(@ + 1, MaxHeartbeats)]
  /\ hbSleep' = [hbSleep EXCEPT ![i] = HeartbeatSleep(outcome, client)]
  /\ hbpc' = [hbpc EXCEPT ![i] = HeartbeatNext(outcome)]

\* lines 160-178: serialize, build the request, hand it to the transport
HbSend(i) ==
  /\ hbpc[i] = "send"
  /\ \E b \in BuildResults :
       IF b = "ok"
         THEN /\ inflight' = inflight (+) SetToBag({Wire(i, HEARTBEAT_PATH, heartBeatReq[i])})
              /\ hbSent' = [hbSent EXCEPT ![i] = Min(@ + 1, MaxHeartbeats)]
              /\ hbpc' = [hbpc EXCEPT ![i] = "do"]
              /\ UNCHANGED <<hbSleep, lastOutcome, hbStatus, consecFails>>
         ELSE /\ HbCycleEnds(i, b)
              /\ hbStatus' = [hbStatus EXCEPT ![i] = 0]
              /\ UNCHANGED <<inflight, hbSent>>
  /\ UNCHANGED <<construction, rulesVersion, rulesCalls, startVars, regHist, heartBeatReq,
                 hbCycles, waits, sep, builtAt, prevBuilt, launches>>

\* lines 178-197: httpClient.Do returns; the cycle ends
HbDone(i) ==
  /\ hbpc[i] = "do"
  /\ \E w \in InFlight(i, HEARTBEAT_PATH) : \E r \in DoResults :
       /\ inflight' = inflight (-) SetToBag({w})
       /\ hbStatus' = [hbStatus EXCEPT ![i] = r.status]
       /\ HbCycleEnds(i, HeartbeatOutcome(r))
  /\ UNCHANGED <<construction, rulesVersion, rulesCalls, startVars, regHist, heartBeatReq,
                 hbCycles, hbSent, waits, sep, builtAt, prevBuilt, launches>>

\* time.Sleep returns; the loop starts its next cycle
HbWake(i) ==
  /\ hbpc[i] = "sleep"
  /\ waits' = [waits EXCEPT ![i] = Append(@, hbSleep[i])]
  /\ hbSleep' = [hbSleep EXCEPT ![i] = 0]
  /\ hbpc' = [hbpc EXCEPT ![i] = "build"]
  /\ UNCHANGED <<construction, rulesVersion, rulesCalls, inflight, startVars, regHist,
                 heartBeatReq, hbCycles, hbSent, lastOutcome, hbStatus, sep, builtAt,
                 prevBuilt, launches, consecFails>>

\* ---- the rest of the process ----
\* some other component replaces the rule set: the store reports a new version
UpdateRules ==
  /\ \E v \in VersionIDs \ {rulesVersion} : rulesVersion' = v
  /\ UNCHANGED <<construction, rulesCalls, inflight, startVars, regHist, hbVars, hbHist>>

\* the steps of one Start() invocation and of the goroutine it launches
StartStep(i) == Start(i) \/ RegisterCall(i) \/ RegisterDone(i) \/ BackoffDone(i)

HbStep(i) == HbBuild(i) \/ HbSend(i) \/ HbDone(i) \/ HbWake(i)

Next ==
  \/ \E i \in FirstCaller : StartStep(i)
  \/ \E i \in FirstCaller : HbStep(i)
  \/ UpdateRules

Spec == Init /\ [][Next]_vars

\* ---- scheduling ----
\* the steps of a Start() that has been entered: the Go scheduler runs the
\* calling goroutine, the transport's call returns, the sleep ends
Running(i) == RegisterCall(i) \/ RegisterDone(i) \/ BackoffDone(i)

\* a heartbeat request is built and handed to the transport
HbSent(i) == HbSend(i) /\ hbpc'[i] = "do"

\* the registration phase alone: Start() up to its return
NextReg == \E i \in FirstCaller : StartStep(i)

SpecReg == Init /\ [][NextReg]_vars

\* the calling goroutine is scheduled, every transport call returns, every
\* sleep ends
SpecRegFair == SpecReg /\ \A i \in FirstCaller : WF_vars(Running(i))

\* the state in which Start() has just returned nil: the first registration
\* request was answered 200 and the heartbeat goroutine has been launched
InitRegistered ==
  /\ ifaddrs = HostInterfaces
  /\ \E h \in HeartbeatIntervals :
       /\ client = NewClient(ifaddrs, h).c
       /\ newClientErr = NewClient(ifaddrs, h).err
  /\ rulesVersion \in VersionIDs
  /\ rulesCalls = << >>
  /\ inflight = EmptyBag
  /\ pc = [i \in Callers |-> IF i \in FirstCaller THEN "done" ELSE "idle"]
  /\ attempt = [i \in Callers |-> 0]
  /\ backoff = [i \in Callers |-> 0]
  /\ startErr = [i \in Callers |-> IF i \in FirstCaller THEN "nil" ELSE "pending"]
  /\ hbpc = [i \in Callers |-> IF i \in FirstCaller THEN "build" ELSE "none"]
  /\ heartBeatReq = [i \in Callers |-> NoRequest]
  /\ hbSleep = [i \in Callers |-> 0]
  /\ regCalls = [i \in Callers |-> IF i \in FirstCaller THEN 1 ELSE 0]
  /\ nBackoffs = [i \in Callers |-> 0]
  /\ slept = [i \in Callers |-> 0]
  /\ regSent = [i \in Callers |-> IF i \in FirstCaller THEN 1 ELSE 0]
  /\ lastErr = [i \in Callers |-> IF i \in FirstCaller THEN "nil" ELSE "none"]
  /\ lastResp = [i \in Callers |-> IF i \in FirstCaller
                                     THEN [err |-> FALSE, status |-> StatusOK, body |-> "norules"]
                                     ELSE NoAttempt]
  /\ hbCycles = [i \in Callers |-> 0]
  /\ hbSent = [i \in Callers |-> 0]
  /\ lastOutcome = [i \in Callers |-> "none"]
  /\ hbStatus = [i \in Callers |-> 0]
  /\ waits = [i \in Callers |-> << >>]
  /\ sep = [i \in Callers |-> << >>]
  /\ builtAt = [i \in Callers |-> 0]
  /\ prevBuilt = [i \in Callers |-> 0]
  /\ launches = [i \in Callers |-> IF i \in FirstCaller THEN 1 ELSE 0]
  /\ consecFails = [i \in Callers |-> 0]

\* the heartbeat goroutine and the rest of the process, once registered
NextHb ==
  \/ \E i \in FirstCaller : HbStep(i)
  \/ UpdateRules

\* the goroutine is scheduled, every transport call returns, every sleep
\* ends, and building a heartbeat request does not fail forever
SpecHbFair ==
  /\ InitRegistered
  /\ [][NextHb]_vars
  /\ \A i \in FirstCaller : WF_vars(HbStep(i)) /\ SF_vars(HbSent(i))

\* ---- Start() invoked more than once on the same client ----
MaxMultiAttempts == 1

MaxMultiCycles == 1

\* what the controller answers in the runs with several invocations
MultiResponses == {TransportError, [err |-> FALSE, status |-> StatusOK, body |-> "norules"]}

\* the runs explored: few failed attempts, few heartbeat cycles, requests
\* that always build, a controller that answers 200 or not at all
MultiScope ==
  \A i \in Callers :
    /\ attempt[i] <= MaxMultiAttempts
    /\ hbCycles[i] <= MaxMultiCycles
    /\ lastResp[i] \in MultiResponses \cup {NoAttempt}
    /\ lastErr[i] \in {"none", "nil", "send"}
    /\ lastOutcome[i] \in {"none", "ok", "send"}

MultiStart(i) == StartStep(i) /\ MultiScope'

MultiHb(i) == HbStep(i) /\ MultiScope'

NextMulti ==
  \/ \E i \in Callers : MultiStart(i)
  \/ \E i \in Callers : MultiHb(i)

SpecMulti == Init /\ [][NextMulti]_vars

\* construction on any host, up to the first registration request
NextIP ==
  \/ NewClientCall
  \/ \E i \in FirstCaller : Start(i)
  \/ \E i \in FirstCaller : RegisterCall(i)

SpecIP == InitIP /\ [][NextIP]_vars

TypeOK ==
  /\ newClientErr = "nil" => client \in {NewClient(ifaddrs, h).c : h \in HeartbeatIntervals}
  /\ rulesVersion \in VersionIDs
  /\ \A i \in Callers :
       /\ pc[i] \in {"idle", "register", "do", "sleep", "done"}
       /\ attempt[i] \in 0..MAX_REGISTRATION_ATTEMPTS
       /\ startErr[i] \in {"pending", "nil", "exhausted"}
       /\ hbpc[i] \in {"none", "build", "send", "do", "sleep"}

\* ======================= the claims =======================

\* what a heartbeat cycle that ended with outcome o sleeps
ExpectedWait(o) ==
  IF o = "ok" THEN client.heartbeatInterval ELSE FAILED_HEARTBEAT_RETRY_INTERVAL

\* the most recent register() of i got an HTTP response with status st
GotStatus(i, st) == ~lastResp[i].err /\ lastResp[i].status = st

\* C1: when every registration attempt fails, Start() returns the exhaustion
\* error after exactly 5 calls of register(), and no heartbeat goroutine is
\* launched and no heartbeat request is sent.
C1_ExhaustionAfterFive ==
  \A i \in Callers :
    /\ startErr[i] = "exhausted" =>
         /\ regCalls[i] = MAX_REGISTRATION_ATTEMPTS
         /\ attempt[i] = MAX_REGISTRATION_ATTEMPTS
         /\ lastErr[i] \notin {"nil", "none"}
         /\ pc[i] = "done"
    /\ (attempt[i] = MAX_REGISTRATION_ATTEMPTS) => startErr[i] = "exhausted"
    /\ (startErr[i] # "nil") =>
         /\ hbpc[i] = "none"
         /\ launches[i] = 0
         /\ hbSent[i] = 0
         /\ hbCycles[i] = 0
         /\ NumInFlight(i, HEARTBEAT_PATH) = 0

\* five requests were answered 503 and Start() returned the exhaustion error
C1_Witness ==
  /\ startErr[1] = "exhausted"
  /\ regSent[1] = MAX_REGISTRATION_ATTEMPTS
  /\ GotStatus(1, 503)

\* C2: Start() blocks for the whole registration phase: no heartbeat is sent,
\* no heartbeat goroutine exists and Start() has not returned nil unless the
\* most recent registration attempt received a 200; while registration is
\* running Start() has not returned.
C2_StartBlocksUntil200 ==
  \A i \in Callers :
    /\ (startErr[i] = "nil" \/ hbpc[i] # "none" \/ hbSent[i] > 0 \/ launches[i] > 0) =>
         /\ GotStatus(i, StatusOK)
         /\ pc[i] = "done"
         /\ startErr[i] = "nil"
    /\ pc[i] \in {"register", "do", "sleep"} =>
         /\ startErr[i] = "pending"
         /\ hbpc[i] = "none"

\* Start() has returned nil after a retry and the goroutine it launched has
\* not yet begun its first cycle
C2_Witness ==
  /\ startErr[1] = "nil"
  /\ attempt[1] > 0
  /\ hbpc[1] = "build"
  /\ hbCycles[1] = 0

\* C3: one Start() makes at most 5 registration attempts; success is reported
\* only if the most recent attempt succeeded, and once 5 attempts have failed
\* the outcome is exhaustion.
C3_BoundedAttempts ==
  \A i \in Callers :
    /\ regCalls[i] <= MAX_REGISTRATION_ATTEMPTS
    /\ regSent[i] <= regCalls[i]
    /\ attempt[i] <= regCalls[i]
    /\ startErr[i] = "nil" => (lastErr[i] = "nil" /\ attempt[i] < MAX_REGISTRATION_ATTEMPTS)
    /\ attempt[i] >= MAX_REGISTRATION_ATTEMPTS => startErr[i] = "exhausted"

\* four failures, then the fifth attempt succeeded
C3_Witness ==
  /\ startErr[1] = "nil"
  /\ attempt[1] = MAX_REGISTRATION_ATTEMPTS - 1
  /\ regCalls[1] = MAX_REGISTRATION_ATTEMPTS

\* C4 as stated: a registration that received 200 with a valid body has made
\* exactly one updateRules call carrying the payload, or none if the payload
\* is absent.
C4_Original ==
  \A i \in FirstCaller :
    (pc[i] = "done" /\ GotStatus(i, StatusOK) /\ lastResp[i].body \in {"rules", "norules"}) =>
      rulesCalls = IF lastResp[i].body = "rules" THEN <<"rules">> ELSE << >>

\* C4 (amended): a registration attempt that received 200 makes no updateRules
\* call, whether or not the response carries a rule set: register() closes the
\* body unread.
C4_NoUpdateRulesOn200 ==
  \A i \in Callers :
    (pc[i] = "done" /\ GotStatus(i, StatusOK)) => (rulesCalls = << >> /\ startErr[i] = "nil")

\* registration succeeded on a 200 that carried a rule set
C4_Witness ==
  /\ pc[1] = "done"
  /\ GotStatus(1, StatusOK)
  /\ lastResp[1].body = "rules"
  /\ startErr[1] = "nil"

\* C5: a registration attempt answered with a non-200 status makes no
\* updateRules call, leaves the rules store as it was, and is counted as a
\* failed attempt by the retry loop.
C5_Non200State ==
  \A i \in Callers :
    (~lastResp[i].err /\ lastResp[i].status \in (Statuses \ {StatusOK})) =>
      /\ rulesCalls = << >>
      /\ lastErr[i] = "status"
      /\ attempt[i] >= 1
      /\ attempt[i] = regCalls[i] - (IF pc[i] = "do" THEN 1 ELSE 0)
      /\ startErr[i] # "nil"

C5_Non200Step ==
  \A i \in Callers :
    (pc[i] = "do" /\ pc'[i] # "do" /\ ~lastResp'[i].err /\ lastResp'[i].status # StatusOK) =>
      /\ rulesVersion' = rulesVersion
      /\ rulesCalls' = rulesCalls
      /\ attempt'[i] = attempt[i] + 1

C5_Non200IsFailure == []C5_Non200State /\ [][C5_Non200Step]_vars

\* a 201 that carried a rule set was counted as the first failure
C5_Witness ==
  /\ GotStatus(1, 201)
  /\ lastResp[1].body = "rules"
  /\ attempt[1] = 1
  /\ pc[1] = "sleep"

\* C6: for a in 1..4, the backoff slept after the a-th failure is a whole
\* number of seconds d with 0 <= d < 2^a; the range's upper bound grows with
\* a, and 0 is in every range.
C6_BackoffRange ==
  /\ \A i \in Callers :
       pc[i] = "sleep" =>
         /\ attempt[i] \in 1..(MAX_REGISTRATION_ATTEMPTS - 1)
         /\ backoff[i] \in Nat
         /\ backoff[i] < 2 ^ attempt[i]
  /\ \A a \in 1..(MAX_REGISTRATION_ATTEMPTS - 1) :
       /\ 0 \in BackoffChoices(a)
       /\ a > 1 => \E d \in BackoffChoices(a) : \A e \in BackoffChoices(a - 1) : d > e

\* the longest backoff: 15 seconds after the fourth failure
C6_Witness ==
  /\ pc[1] = "sleep"
  /\ attempt[1] = MAX_REGISTRATION_ATTEMPTS - 1
  /\ backoff[1] = 15

\* C7: between two consecutive heartbeat cycles exactly one sleep happens:
\* the retry delay of 5 seconds after a failed cycle, the heartbeat interval
\* after a successful one.
C7_OneWaitPerCycle ==
  \A i \in Callers :
    /\ hbpc[i] = "sleep" =>
         /\ waits[i] = << >>
         /\ hbSleep[i] = ExpectedWait(lastOutcome[i])
         /\ lastOutcome[i] # "ok" => hbSleep[i] # client.heartbeatInterval
         /\ lastOutcome[i] = "ok" => hbSleep[i] # FAILED_HEARTBEAT_RETRY_INTERVAL
    /\ (hbpc[i] = "build" /\ lastOutcome[i] # "none") =>
         waits[i] = <<ExpectedWait(lastOutcome[i])>>
    /\ (hbpc[i] \in {"send", "do"} /\ lastOutcome[i] # "none") =>
         /\ waits[i] = << >>
         /\ sep[i] = <<ExpectedWait(lastOutcome[i])>>
    /\ (hbpc[i] \in {"build", "send", "do"} /\ lastOutcome[i] = "none") =>
         (waits[i] = << >> /\ sep[i] = << >>)

\* two cycles, two requests: the first failed, the second succeeded, and they
\* were separated by the retry delay
C7_Witness ==
  /\ hbCycles[1] = 2
  /\ hbSent[1] = 2
  /\ consecFails[1] = 0
  /\ lastOutcome[1] = "ok"
  /\ sep[1] = <<FAILED_HEARTBEAT_RETRY_INTERVAL>>
  /\ client.heartbeatInterval = 60

\* C8: the heartbeat loop never terminates and never escalates: it has no
\* terminal state, always has a next step, sleeps the same retry delay after
\* any number of consecutive failures, and does not change what Start()
\* returned.
C8_LoopState ==
  \A i \in Callers :
    /\ hbpc[i] \in {"none", "build", "send", "do", "sleep"}
    /\ hbpc[i] # "none" => ENABLED HbStep(i)
    /\ (hbpc[i] = "sleep" /\ consecFails[i] > 0) =>
         hbSleep[i] = FAILED_HEARTBEAT_RETRY_INTERVAL

C8_LoopStep ==
  \A i \in Callers :
    /\ hbpc[i] # "none" => hbpc'[i] # "none"
    /\ (hbpc[i] = "sleep" /\ hbpc'[i] # "sleep") => hbpc'[i] = "build"
    /\ hbpc[i] # "none" => (startErr'[i] = startErr[i] /\ pc'[i] = pc[i])

C8_HeartbeatNeverStops == []C8_LoopState /\ [][C8_LoopStep]_vars

\* after MaxHeartbeats consecutive failed cycles the loop is in its next cycle
C8_Witness ==
  /\ consecFails[1] = MaxHeartbeats
  /\ hbpc[1] = "do"
  /\ startErr[1] = "nil"

\* C9: every heartbeat request carries the version identifier the rules store
\* reported when its cycle was built; no cycle reuses the version an earlier
\* cycle read.
C9_VersionState ==
  \A i \in Callers :
    /\ hbpc[i] \in {"send", "do"} => heartBeatReq[i].RulesVersionID = builtAt[i]
    /\ \A w \in InFlight(i, HEARTBEAT_PATH) : w.body.RulesVersionID = builtAt[i]

C9_VersionStep ==
  \A i \in Callers :
    (hbpc[i] = "build" /\ hbpc'[i] # "build") =>
      heartBeatReq'[i].RulesVersionID = rulesVersion

C9_HeartbeatCarriesCurrentVersion == []C9_VersionState /\ [][C9_VersionStep]_vars

\* the rules changed between two cycles and the second heartbeat in flight
\* carries the new version
C9_Witness ==
  /\ hbCycles[1] = 2
  /\ prevBuilt[1] # builtAt[1]
  /\ \E w \in InFlight(1, HEARTBEAT_PATH) :
       w.body.RulesVersionID = rulesVersion /\ w.body.RulesVersionID # prevBuilt[1]

\* C10: registration attempts and heartbeat cycles of one Start() are strictly
\* sequential: at most one request of each kind is in flight, registration
\* never overlaps the heartbeat loop, and the goroutine is launched once.
C10_Sequential ==
  \A i \in Callers :
    /\ NumInFlight(i, REGISTRATION_PATH) <= 1
    /\ NumInFlight(i, HEARTBEAT_PATH) <= 1
    /\ NumInFlight(i, REGISTRATION_PATH) + NumInFlight(i, HEARTBEAT_PATH) <= 1
    /\ (NumInFlight(i, REGISTRATION_PATH) = 1) <=> (pc[i] = "do")
    /\ (NumInFlight(i, HEARTBEAT_PATH) = 1) <=> (hbpc[i] = "do")
    /\ pc[i] \in {"register", "do", "sleep"} => hbpc[i] = "none"
    /\ launches[i] <= 1
    /\ (hbpc[i] # "none") <=> (launches[i] = 1)

\* after a retried registration, the one goroutine has a heartbeat in flight
C10_Witness ==
  /\ NumInFlight(1, HEARTBEAT_PATH) = 1
  /\ launches[1] = 1
  /\ regSent[1] > 1
  /\ hbSent[1] = 2

\* where invocation i of Start() stands in the client's lifecycle
Lifecycle(i) ==
  IF pc[i] = "idle" THEN "Unregistered"
  ELSE IF pc[i] \in {"register", "do", "sleep"} THEN "Registering"
  ELSE IF startErr[i] = "nil" THEN "Registered"
  ELSE "PermanentlyFailed"

LifecycleMoves ==
  {<<"Unregistered", "Unregistered">>, <<"Unregistered", "Registering">>,
   <<"Registering", "Registering">>, <<"Registering", "Registered">>,
   <<"Registering", "PermanentlyFailed">>, <<"Registered", "Registered">>,
   <<"PermanentlyFailed", "PermanentlyFailed">>}

\* C11: the lifecycle only moves Unregistered -> Registering -> (Registered |
\* PermanentlyFailed); Registered is absorbing, sends no further /register
\* request and stays heartbeating; PermanentlyFailed is entered by exhausting
\* the attempts and sends no request of any kind.
C11_LifecycleState ==
  \A i \in Callers :
    /\ Lifecycle(i) = "Registered" =>
         /\ hbpc[i] \in {"build", "send", "do", "sleep"}
         /\ NumInFlight(i, REGISTRATION_PATH) = 0
    /\ Lifecycle(i) = "PermanentlyFailed" =>
         /\ attempt[i] = MAX_REGISTRATION_ATTEMPTS
         /\ hbpc[i] = "none"
         /\ InFlight(i, REGISTRATION_PATH) \cup InFlight(i, HEARTBEAT_PATH) = {}
    /\ Lifecycle(i) \in {"Unregistered", "Registering"} => hbpc[i] = "none"

C11_LifecycleStep ==
  \A i \in Callers :
    /\ <<Lifecycle(i), Lifecycle(i)'>> \in LifecycleMoves
    /\ Lifecycle(i) = "Registered" =>
         (regSent'[i] = regSent[i] /\ regCalls'[i] = regCalls[i])
    /\ Lifecycle(i) = "PermanentlyFailed" =>
         (regSent'[i] = regSent[i] /\ regCalls'[i] = regCalls[i] /\ hbSent'[i] = hbSent[i])

C11_Lifecycle == []C11_LifecycleState /\ [][C11_LifecycleStep]_vars

\* registered, and still heartbeating after two heartbeats in a row were refused
C11_Witness ==
  /\ Lifecycle(1) = "Registered"
  /\ lastOutcome[1] = "status"
  /\ consecFails[1] = 2
  /\ hbpc[1] = "do"

\* C12: if the first k attempts fail and attempt k+1 receives 200 (k in 0..4),
\* Start() returns nil after exactly k+1 calls of register() and exactly k
\* backoff sleeps, and the heartbeat goroutine has been launched exactly once.
C12_SuccessAfterKFailures ==
  \A i \in Callers :
    /\ startErr[i] = "nil" =>
         /\ attempt[i] \in 0..(MAX_REGISTRATION_ATTEMPTS - 1)
         /\ regCalls[i] = attempt[i] + 1
         /\ regSent[i] \in 1..regCalls[i]
         /\ nBackoffs[i] = attempt[i]
         /\ launches[i] = 1
         /\ GotStatus(i, StatusOK)
    /\ pc[i] \in {"register", "sleep"} => regCalls[i] = attempt[i]
    /\ pc[i] = "do" => regCalls[i] = attempt[i] + 1

\* two failed requests, then a 200 on the third: registered, heartbeats begun
C12_Witness ==
  /\ startErr[1] = "nil"
  /\ attempt[1] = 2
  /\ regSent[1] = 3
  /\ nBackoffs[1] = 2
  /\ launches[1] = 1
  /\ hbSent[1] = 1

\* C13 as stated: a transport error, a non-200 status or a 200 whose body
\* cannot be decoded makes the attempt a failure.
C13_Original ==
  \A i \in FirstCaller :
    (lastResp[i].err \/ lastResp[i].status \in (Statuses \ {StatusOK})
       \/ (GotStatus(i, StatusOK) /\ lastResp[i].body = "invalid")) =>
      lastErr[i] \notin {"nil", "none"}

\* C13 (amended): a transport error or a non-200 status makes the attempt a
\* failure that the loop counts and retries; a 200 is a success whatever its
\* body, decodable or not, because register() never reads the body.
C13_FailureKinds ==
  \A i \in Callers :
    /\ lastResp[i].err => lastErr[i] = "send"
    /\ lastResp[i].status \in (Statuses \ {StatusOK}) => lastErr[i] = "status"
    /\ GotStatus(i, StatusOK) => (lastErr[i] = "nil" /\ startErr[i] = "nil")
    /\ lastErr[i] \notin {"nil", "none"} =>
         /\ attempt[i] >= 1
         /\ startErr[i] # "nil"
         /\ attempt[i] < MAX_REGISTRATION_ATTEMPTS => pc[i] \in {"sleep", "register", "do"}

\* a 200 with an undecodable body registered the client, after one counted failure
C13_Witness ==
  /\ GotStatus(1, StatusOK)
  /\ lastResp[1].body = "invalid"
  /\ startErr[1] = "nil"
  /\ attempt[1] = 1

\* C14: one register() call performs at most one POST to /register, exactly
\* one when the request can be built, and never repeats it: the requests sent
\* never outnumber the iterations of registerWithBackoff's loop.
C14_PostsState ==
  \A i \in Callers :
    /\ regSent[i] <= regCalls[i]
    /\ pc[i] = "do" => NumInFlight(i, REGISTRATION_PATH) = 1
    /\ pc[i] # "do" => NumInFlight(i, REGISTRATION_PATH) = 0
    /\ \A w \in InFlight(i, REGISTRATION_PATH) : w.path = "register"

C14_PostsStep ==
  \A i \in Callers :
    /\ regSent'[i] \in {regSent[i], regSent[i] + 1}
    /\ regSent'[i] # regSent[i] => regCalls'[i] = regCalls[i] + 1
    /\ (regCalls'[i] # regCalls[i] /\ pc'[i] = "do") => regSent'[i] = regSent[i] + 1

C14_OnePostPerAttempt == []C14_PostsState /\ [][C14_PostsStep]_vars

\* three calls of register(), one of which could not build its request
C14_Witness ==
  /\ regCalls[1] = 3
  /\ regSent[1] = 2
  /\ pc[1] = "do"

\* C15: the identity, the controller URL and the heartbeat interval are fixed
\* at construction; every request carries the client's identity values, and
\* only the rules version differs between heartbeat cycles.
C15_IdentityState ==
  \A w \in BagToSet(inflight) :
    /\ w.body.IPAddress = client.webhookIP
    /\ w.body.Port = client.webhookPort
    /\ w.body.ServiceName = client.serviceName
    /\ w.body.Namespace = client.namespace
    /\ w.path = HEARTBEAT_PATH => w.body.RulesVersionID \in VersionIDs
    /\ w.path = REGISTRATION_PATH => DOMAIN w.body = {"IPAddress", "Port", "ServiceName", "Namespace"}

C15_IdentityStep == client' = client /\ ifaddrs' = ifaddrs

C15_IdentityFixed == []C15_IdentityState /\ [][C15_IdentityStep]_vars

\* the second heartbeat carries another version but the same identity
C15_Witness ==
  /\ hbCycles[1] = 2
  /\ \E w \in InFlight(1, HEARTBEAT_PATH) :
       /\ w.body.RulesVersionID # prevBuilt[1]
       /\ w.body.IPAddress = "10.0.0.7"
       /\ w.body.Namespace = "ns"

\* C17: one Start() sleeps at most 4 backoffs, none after the fifth failed
\* attempt, and at most 1 + 3 + 7 + 15 = 26 seconds in total.
C17_BackoffBudget ==
  \A i \in Callers :
    /\ nBackoffs[i] <= MAX_REGISTRATION_ATTEMPTS - 1
    /\ nBackoffs[i] = Min(attempt[i], MAX_REGISTRATION_ATTEMPTS - 1)
    /\ slept[i] <= 26
    /\ attempt[i] = MAX_REGISTRATION_ATTEMPTS => (pc[i] = "done" /\ backoff[i] = 0)
    /\ pc[i] = "sleep" => attempt[i] < MAX_REGISTRATION_ATTEMPTS

\* the longest registration: 1 + 3 + 7 + 15 seconds slept before the fifth attempt
C17_Witness ==
  /\ slept[1] = 26
  /\ nBackoffs[1] = 4
  /\ pc[1] = "do"

\* an address that is IPv4 and not loopback
IPv4NotLoopback(a) == a.v4 /\ ~a.loopback

C18_AttemptStep ==
  \A i \in Callers :
    /\ attempt'[i] >= attempt[i]
    /\ (pc[i] \in {"register", "do"} /\ pc'[i] = "sleep") => attempt'[i] > attempt[i]
    /\ attempt'[i] <= MAX_REGISTRATION_ATTEMPTS

C18_StartTerminates ==
  /\ (pc[1] # "idle") ~> (pc[1] = "done" /\ startErr[1] \in {"nil", "exhausted"})
  /\ [][C18_AttemptStep]_vars

\* Start() has returned after the fifth failed attempt
C18_Witness ==
  /\ pc[1] = "done"
  /\ startErr[1] = "exhausted"
  /\ attempt[1] = MAX_REGISTRATION_ATTEMPTS
  /\ lastResp[1].err

\* a heartbeat cycle of invocation 1 ends in this step
CycleEnds == hbpc[1] \in {"send", "do"} /\ hbpc'[1] = "sleep"

\* ... and it ends because the controller answered 200
Answered200 == CycleEnds => (hbpc[1] = "do" /\ hbStatus'[1] = StatusOK)

\* C19: after a successful registration the loop sends heartbeats infinitely
\* often; and if from some point on every heartbeat is answered 200, a
\* successful heartbeat occurs and from then on the loop is paced by the
\* heartbeat interval.
C19_HeartbeatLiveness ==
  /\ <>(startErr[1] = "nil") => []<><<HbSent(1)>>_vars
  /\ (<>(startErr[1] = "nil") /\ <>[][Answered200]_vars) =>
       /\ []<>(hbpc[1] = "sleep" /\ lastOutcome[1] = "ok"
                 /\ hbSleep[1] = client.heartbeatInterval)
       /\ <>[](hbpc[1] = "sleep" => hbSleep[1] = client.heartbeatInterval)

\* after two failed cycles the third heartbeat succeeded and the loop sleeps
\* the heartbeat interval
C19_Witness ==
  /\ hbCycles[1] = 3
  /\ hbSent[1] = 3
  /\ hbStatus[1] = StatusOK
  /\ lastOutcome[1] = "ok"
  /\ sep[1] = <<FAILED_HEARTBEAT_RETRY_INTERVAL>>
  /\ hbpc[1] = "sleep"
  /\ hbSleep[1] = client.heartbeatInterval

\* ---- C20 ----
\* the steps of invocation i touch no other invocation's counters or loop
C20_OwnCounter ==
  \A i \in Callers :
    /\ (pc[i] = "idle" /\ pc'[i] # "idle") => attempt'[i] = 0
    /\ (pc'[i] # pc[i]) =>
         \A j \in Callers \ {i} :
           /\ attempt'[j] = attempt[j]
           /\ regCalls'[j] = regCalls[j]
           /\ pc'[j] = pc[j]
           /\ hbpc'[j] = hbpc[j]
           /\ launches'[j] = launches[j]

\* invocations of Start() that returned nil
Succeeded == {i \in Callers : pc[i] = "done" /\ startErr[i] = "nil"}

\* heartbeat loops that are running
Loops == {i \in Callers : hbpc[i] # "none"}

C20_State ==
  /\ \A i \in Callers :
       /\ pc[i] = "idle" => ENABLED Start(i)
       /\ pc[i] = "register" => attempt[i] = regCalls[i]
       /\ pc[i] = "do" => attempt[i] = regCalls[i] - 1
       /\ launches[i] = (IF i \in Succeeded THEN 1 ELSE 0)
  /\ Loops = Succeeded
  /\ Cardinality(Loops) = Cardinality(Succeeded)

\* C20: Start() has no guard against a second invocation on the same client:
\* an invocation can always be entered, whatever the others are doing; each
\* runs its own registerWithBackoff, whose attempt counter starts at 0 and
\* counts only its own failed register() calls; each invocation that returned
\* nil has launched exactly one heartbeat loop and no other invocation has,
\* so the number of loops running is the number of successful invocations.
C20_NoStartGuard == []C20_State /\ [][C20_OwnCounter]_vars

\* two invocations returned nil, the first after a failed attempt and the
\* second at once, and the heartbeat requests of both loops are in flight
C20_Witness ==
  /\ Succeeded = {1, 2}
  /\ attempt[1] = 1
  /\ attempt[2] = 0
  /\ regCalls[1] = 2
  /\ regCalls[2] = 1
  /\ Cardinality(Loops) = 2
  /\ NumInFlight(1, HEARTBEAT_PATH) = 1
  /\ NumInFlight(2, HEARTBEAT_PATH) = 1

====
